---- MODULE Spec2Model ----
(***************************************************************************)
(* Model of the Play Store review pipeline (src/generate.py and src/lib):  *)
(* the resumable main() run with its checkpoints and Summary Log, the      *)
(* per-review translate/classify loop of classify_reviews, the gateway     *)
(* retry loop of OpenAIClient, the validators and the aggregation.         *)
(* Spec is the program run any number of times; SpecLib is one call of a   *)
(* library function (validation.py, utils.py) on bounded arguments.        *)
(*                                                                         *)
(* Data abstraction.                                                       *)
(*  - A date is a day number; a window is [start, end].                    *)
(*  - A review text is NoText or a sequence of words; the word " " stands    *)
(*    for a run of whitespace, <<>> is the empty string.                   *)
(*  - A label string (the model's answer, the Classification column) is    *)
(*    the sequence of its comma-separated pieces; a piece is               *)
(*    [sp, tok]: sp says the piece starts with whitespace, tok is the      *)
(*    piece with surrounding whitespace removed.  "" is <<[FALSE, ""]>>.   *)
(*  - A backend response content is [think, body]: think says the content  *)
(*    starts with a <think>...</think> block, body is what follows it.     *)
(*  - Waits are in tenths of a second.                                     *)
(***************************************************************************)
EXTENDS Integers, Sequences, FiniteSets, TLC

\* None for a text column (Review_Text, Translated_Text)
NoText == << "<NA>" >>

\* a row without a Classification column value
NoLabel == << >>

\* NaT: a timestamp that failed to parse
NaT == 0

----------------------------------------------------------------------------
(* src/config.py *)

MAX_RETRIES == 3
RETRY_DELAY == 20
RATE_LIMIT_DELAY == 5

CATEGORIES ==
  { "Webcompat", "Slow", "Privacy", "Policy", "Pageload", "Audio", "Video",
    "Networking", "Battery", "Memory", "Sync", "Tabs", "Addons", "Benchmark",
    "Bookmarks", "Translations", "Crash", "Scrolling", "Stuttering",
    "Startup", "UI", "Downloads", "Autofill", "Search", "History",
    "Satisfied", "Other" }

----------------------------------------------------------------------------
(* Bounds of the model *)

MaxRuns == 2

----------------------------------------------------------------------------
(* Strings *)

Piece(sp, tok) == [sp |-> sp, tok |-> tok]

EmptyStr == << Piece(FALSE, "") >>

Str1(tok) == << Piece(FALSE, tok) >>

\* ', '.join(toks) for a non-empty list of tokens
JoinCommaSpace(toks) ==
  [i \in 1..Len(toks) |-> Piece(i > 1, toks[i])]

\* s.split(',') followed by strip() of every piece
SplitStrip(s) == [i \in 1..Len(s) |-> s[i].tok]

\* str.lower() on the tokens the model uses
LowerTok(tok) ==
  CASE tok = "Satisfied" -> "satisfied"
    [] tok = "SATISFIED" -> "satisfied"
    [] tok = "Other"     -> "other"
    [] tok = "OTHER"     -> "other"
    [] OTHER             -> tok

\* s.lower() == word, for a word without comma or whitespace
LowerEquals(s, word) ==
  Len(s) = 1 /\ ~s[1].sp /\ LowerTok(s[1].tok) = word

\* str.lower() on the words of review texts
LowerWord(w) ==
  CASE w = "YouTube" -> "youtube"
    [] w = "YT"      -> "yt"
    [] w = "FB"      -> "fb"
    [] OTHER         -> w

\* text.strip() == ''
IsBlankText(text) == \A i \in 1..Len(text) : text[i] = " "

----------------------------------------------------------------------------
(* src/lib/utils.py: entity detection and reconciliation *)

WebsiteNames ==
  << "YouTube", "Facebook", "Instagram", "Twitter", "TikTok", "Netflix",
     "Reddit", "Google", "Amazon", "WhatsApp", "Spotify", "Discord",
     "Twitch", "LinkedIn", "Pinterest" >>

\* the single-word surface forms each pattern list matches
WEBSITE_PATTERNS(site) ==
  CASE site = "YouTube"   -> {"youtube", "yt", "youtube.com", "youtubes", "youtub"}
    [] site = "Facebook"  -> {"facebook", "fb", "facebook.com", "facebooks"}
    [] site = "Instagram" -> {"instagram", "insta", "ig", "instagram.com", "instagrams"}
    [] site = "Twitter"   -> {"twitter", "twitter.com", "x.com", "tweet", "tweets", "twitting"}
    [] site = "TikTok"    -> {"tiktok", "tiktok.com"}
    [] site = "Netflix"   -> {"netflix", "netflix.com"}
    [] site = "Reddit"    -> {"reddit", "reddit.com", "subreddit"}
    [] site = "Google"    -> {"google", "google.com", "googling"}
    [] site = "Amazon"    -> {"amazon", "amazon.com", "amzn"}
    [] site = "WhatsApp"  -> {"whatsapp", "wa"}
    [] site = "Spotify"   -> {"spotify", "spotify.com"}
    [] site = "Discord"   -> {"discord", "discord.com"}
    [] site = "Twitch"    -> {"twitch", "twitch.tv"}
    [] site = "LinkedIn"  -> {"linkedin", "linkedin.com"}
    [] site = "Pinterest" -> {"pinterest", "pinterest.com"}

detect_websites_in_text(text) ==
  IF text = NoText \/ text = <<>>
  THEN {}
  ELSE { WebsiteNames[k] : k \in
           { j \in 1..Len(WebsiteNames) :
               \E i \in 1..Len(text) :
                 LowerWord(text[i]) \in WEBSITE_PATTERNS(WebsiteNames[j]) } }

\* list(a set): its elements once each, in an order Python does not fix
Orders(S) ==
  { f \in [1..Cardinality(S) -> S] :
      \A i, j \in 1..Cardinality(S) : f[i] = f[j] => i = j }

\* bug: every detected website is appended, not only the missing ones
enhance_classification_appends_detected(classification, review_text) ==
  IF classification = EmptyStr \/ review_text = NoText \/ review_text = <<>>
  THEN { classification }
  ELSE LET current  == SplitStrip(classification)
           curset   == { current[i] : i \in 1..Len(current) }
           detected == detect_websites_in_text(review_text)
       IN  IF detected \ curset # {}
           THEN { JoinCommaSpace(c \o m) :
                    c \in Orders(curset), m \in Orders(detected) }
           ELSE { classification }

\* the strings enhance_classification_with_websites may return: the order
\* within list(current_categories) and within list(missing_websites) is
\* that of a set
enhance_classification_with_websites(classification, review_text) ==
  IF classification = EmptyStr \/ review_text = NoText \/ review_text = <<>>
  THEN { classification }
  ELSE LET current  == SplitStrip(classification)
           curset   == { current[i] : i \in 1..Len(current) }
           missing  == detect_websites_in_text(review_text) \ curset
       IN  IF missing # {}
           THEN { JoinCommaSpace(c \o m) :
                    c \in Orders(curset), m \in Orders(missing) }
           ELSE { classification }

----------------------------------------------------------------------------
(* src/lib/utils.py: aggregation *)

\* character facts about the tokens that are not closed-vocabulary names
FirstIsUpper(tok) == tok \notin {"", "bogus token", "slow", "x.com"}
HasSpace(tok)     == tok \in {"bogus token", "Not Sure"}
TokLen(tok) ==
  CASE tok = ""            -> 0
    [] tok = "X"           -> 1
    [] tok = "bogus token" -> 11
    [] tok = "Not Sure"    -> 8
    [] tok = "Averyveryverylongsitename" -> 25
    [] OTHER               -> 7
\* category.replace('.', '').replace('-', '').isalnum()
IsAlnumSansDotDash(tok) == tok \notin {"", "bogus token", "Not Sure", "Foo_bar", "Site!"}

\* bug: the length of the token is not tested
_is_valid_website_category_any_length(category) ==
  /\ category # ""
  /\ FirstIsUpper(category)
  /\ ~HasSpace(category)
  /\ IsAlnumSansDotDash(category)

_is_valid_website_category(category) ==
  /\ category # ""
  /\ FirstIsUpper(category)
  /\ ~HasSpace(category)
  /\ TokLen(category) >= 2 /\ TokLen(category) <= 20
  /\ IsAlnumSansDotDash(category)

\* the projection of a row that group_classifications stores
Projection(row) ==
  [ link |-> row.link, rating |-> row.rating, language |-> row.lang,
    text |-> row.text, translated |-> row.translated ]

\* results.setdefault(cat, []).append(entry): a dict in insertion order
DictAppend(results, cat, entry) ==
  IF \E k \in 1..Len(results) : results[k].key = cat
  THEN [k \in 1..Len(results) |->
          IF results[k].key = cat
          THEN [results[k] EXCEPT !.items = Append(@, entry)]
          ELSE results[k]]
  ELSE Append(results, [key |-> cat, items |-> <<entry>>])

RECURSIVE GroupPieces(_, _, _, _)
GroupPieces(results, cats, entry, k) ==
  IF k > Len(cats) THEN results
  ELSE IF cats[k] \notin CATEGORIES /\ ~_is_valid_website_category(cats[k])
       THEN GroupPieces(results, cats, entry, k + 1)
       ELSE GroupPieces(DictAppend(results, cats[k], entry), cats, entry, k + 1)

RECURSIVE GroupRows(_, _, _)
GroupRows(results, rows, i) ==
  IF i > Len(rows) THEN results
  ELSE GroupRows(
         GroupPieces(results, SplitStrip(rows[i].classification),
                     Projection(rows[i]), 1),
         rows, i + 1)

group_classifications(rows) == GroupRows(<<>>, rows, 1)

\* bug: the rating is looked at before the label
SentimentRatingFirst(row) ==
  IF row.rating <= 3 THEN "neg"
  ELSE IF LowerEquals(row.classification, "satisfied") THEN "pos"
  ELSE IF ~LowerEquals(row.classification, "other") THEN "neg"
  ELSE "none"

\* the positive/negative verdict of one row: "pos", "neg" or "none"
Sentiment(row) ==
  IF LowerEquals(row.classification, "satisfied") THEN "pos"
  ELSE IF row.rating <= 3 THEN "neg"
  ELSE IF ~LowerEquals(row.classification, "other") THEN "neg"
  ELSE "none"

CountRows(rows, P(_)) == Cardinality({ i \in 1..Len(rows) : P(rows[i]) })

create_summary_entry(rows, grouped_data, start_date, end_date) ==
  [ startDate     |-> start_date,
    endDate       |-> end_date,
    PositiveCount |-> CountRows(rows, LAMBDA r : Sentiment(r) = "pos"),
    NegativeCount |-> CountRows(rows, LAMBDA r : Sentiment(r) = "neg"),
    Categories    |-> [k \in 1..Len(grouped_data) |->
                         [key |-> grouped_data[k].key,
                          count |-> Len(grouped_data[k].items)]],
    Ratings       |-> [r \in 1..5 |->
                         CountRows(rows, LAMBDA x : x.rating = r)] ]

----------------------------------------------------------------------------
(* src/lib/validation.py *)

\* pd.to_datetime(..., errors='coerce') followed by .date(): a day or NaT
ToDatetime(d) == IF d >= 1 THEN d ELSE NaT

\* bug: the index labels of the input are kept
reset_index_missing(rows) == rows

\* reviews.reset_index(drop=True): the labels become 0..n-1
reset_index(rows) == [i \in 1..Len(rows) |-> [rows[i] EXCEPT !.idx = i - 1]]

validate_review_data(rows) ==
  LET r1 == SelectSeq(rows, LAMBDA r : r.rating >= 1 /\ r.rating <= 5)
      r2 == SelectSeq(r1, LAMBDA r : r.text # NoText /\ ~IsBlankText(r.text))
      r3 == [i \in 1..Len(r2) |-> [r2[i] EXCEPT !.date = ToDatetime(@)]]
  IN  reset_index(SelectSeq(r3, LAMBDA r : r.date # NaT))

\* bug: the date-range assertion always passes
validate_date_range_always(rows, start_date, end_date) == TRUE

validate_date_range(rows, start_date, end_date) ==
  LET reviews_start == rows[Len(rows)].date
      reviews_end   == rows[1].date
  IN  ~(reviews_start # start_date \/ reviews_end # end_date)

----------------------------------------------------------------------------
(* src/lib/utils.py: the next window *)

\* bug: the next window starts the day after the last entry's endDate
get_next_date_range_from_end(summary) ==
  LET last == summary[Len(summary)]
  IN  [start |-> last.endDate + 1, end |-> last.endDate + 7]

get_next_date_range(summary) ==
  LET last       == summary[Len(summary)]
      next_start == last.startDate + 7
      next_end   == next_start + 6
  IN  [start |-> next_start, end |-> next_end]

----------------------------------------------------------------------------
(* src/lib/openai.py: the gateway *)

ErrorOut(e)          == [kind |-> "error", err |-> e, think |-> FALSE, body |-> <<>>]
ContentOut(th, body) == [kind |-> "content", err |-> "", think |-> th, body |-> body]

WaitEv(d)   == [ev |-> "wait", d |-> d, out |-> ErrorOut("")]
CallEv(out) == [ev |-> "call", d |-> 0, out |-> out]

\* the log keeps the full answer of the latest call only; of an earlier
\* call it keeps whether it raised or returned
Summarised(log) ==
  [k \in 1..Len(log) |->
     IF log[k].ev = "call"
     THEN CallEv(IF log[k].out.kind = "error" THEN ErrorOut("")
                 ELSE ContentOut(FALSE, <<>>))
     ELSE log[k]]

\* what the backend may do on one chat.completions.create call
BackendErrors == { ErrorOut("timeout"), ErrorOut("ratelimit") }

TranslateOutcomes ==
  BackendErrors \cup
  { ContentOut(FALSE, <<>>),
    ContentOut(TRUE, <<"youtube", "is", "slow">>) }

ClassifyOutcomes ==
  BackendErrors \cup
  { ContentOut(FALSE, EmptyStr),
    ContentOut(TRUE, EmptyStr),
    ContentOut(TRUE, << Piece(TRUE, "Slow") >>) }

\* bug: the retry bound is off by one
LastAttemptOffByOne(attempt) == attempt = MAX_RETRIES

\* attempt == MAX_RETRIES - 1
LastAttempt(attempt) == attempt = MAX_RETRIES - 1

\* bug: the backoff does not grow with the attempt
BackoffDelayConstant(attempt) == RETRY_DELAY

\* RETRY_DELAY * (attempt + 1), attempt counted from 0
BackoffDelay(attempt) == RETRY_DELAY * (attempt + 1)

\* one iteration of the loop of _make_api_call_with_retry with the backend
\* answering `out`: the call returned, the last attempt re-raised its
\* error, the range ran out (line 39), or the loop goes on
ApiAttempt(attempt, log, out) ==
  LET log1 == Summarised(log) \o << WaitEv(RATE_LIMIT_DELAY), CallEv(out) >>
      log2 == Append(log1, WaitEv(BackoffDelay(attempt)))
  IN  IF out.kind # "error"
      THEN [state |-> "returned", out |-> out, err |-> "",
            attempt |-> attempt, log |-> log1]
      ELSE IF LastAttempt(attempt)
      THEN [state |-> "raised", out |-> out, err |-> out.err,
            attempt |-> attempt, log |-> log1]
      ELSE IF attempt + 1 >= MAX_RETRIES
      THEN [state |-> "raised", out |-> out, err |-> "unexpected",
            attempt |-> attempt + 1, log |-> log2]
      ELSE [state |-> "retry", out |-> out, err |-> "",
            attempt |-> attempt + 1, log |-> log2]

\* bug: the empty-content test is missing
IsEmptyContentNever(out, empty) == FALSE

\* `not content`
IsEmptyContent(out, empty) == ~out.think /\ out.body = empty

\* re.sub(r"<think>.*?</think>\s*", "", content) on a translation
StripThinkText(out) == out.body

\* re.sub(r"<think>.*?</think>\s*", "", content) on a label string
StripThinkLabel(out) ==
  IF out.think
  THEN << [out.body[1] EXCEPT !.sp = FALSE] >> \o Tail(out.body)
  ELSE out.body

NoOp == [op |-> "none", status |-> "none", value |-> <<>>, err |-> "", log |-> <<>>]

\* translate() after its retry loop ended in r (returned or raised)
translate(r) ==
  IF r.state = "raised"
  THEN [op |-> "translate", status |-> "raised", value |-> <<>>, err |-> r.err, log |-> r.log]
  ELSE IF IsEmptyContent(r.out, <<>>)
  THEN [op |-> "translate", status |-> "raised", value |-> <<>>, err |-> "empty", log |-> r.log]
  ELSE [op |-> "translate", status |-> "ok", value |-> StripThinkText(r.out), err |-> "", log |-> r.log]

\* classify() after its retry loop ended in r (returned or raised)
classify(r) ==
  IF r.state = "raised"
  THEN [op |-> "classify", status |-> "raised", value |-> <<>>, err |-> r.err, log |-> r.log]
  ELSE IF IsEmptyContent(r.out, EmptyStr)
  THEN [op |-> "classify", status |-> "raised", value |-> <<>>, err |-> "empty", log |-> r.log]
  ELSE [op |-> "classify", status |-> "ok", value |-> StripThinkLabel(r.out), err |-> "", log |-> r.log]

----------------------------------------------------------------------------
(* The inputs of a run *)

\* a row as PlayStoreReviews delivers it; link stands for the identifying
\* columns (Package_Name, App_Version_Name, Device, Review_Link), idx is
\* the row's label in the index of the DataFrame
Row(link, lang, rating, text, date) ==
  [ idx |-> 0, link |-> link, lang |-> lang, rating |-> rating, text |-> text,
    date |-> date, translated |-> NoText, classification |-> NoLabel ]

Batch(columns, rows) == [columns |-> columns, rows |-> rows]

\* a DataFrame fresh from read_csv or to_dataframe has the index 0..n-1
Frame(columns, rows) ==
  Batch(columns, [i \in 1..Len(rows) |-> [rows[i] EXCEPT !.idx = i - 1]])

\* what --input or BigQuery may deliver
Inputs ==
  { Frame(TRUE, <<>>),
    Frame(FALSE, << Row("n1", "en", 4, <<"fine">>, 1) >>),
    Frame(TRUE, << Row("b1", "fr", 2, <<"youtube", "lent">>, 1) >>),
    Frame(TRUE, << Row("a1", "en", 5, <<"great", "app">>, 7),
                   Row("a2", "fr", 1, <<"YT", "plante">>, 1) >>),
    Frame(TRUE, << Row("d1", "en", 6, <<"ok">>, 7),
                   Row("d2", "en", 4, <<" ">>, 7),
                   Row("d3", "en", 3, NoText, 5),
                   Row("d4", "en", 3, <<"bad", "fb">>, NaT),
                   Row("d5", "en", 4, <<"fine">>, 1) >>),
    Frame(TRUE, << Row("z1", "en", 0, <<"zero">>, 1) >>),
    Frame(TRUE, << Row("s1", "en", 3, <<"meh">>, 1),
                   Row("s2", "en", 3, <<"meh">>, 7) >>),
    Frame(TRUE, << Row("x1", "en", 5, <<"love", "it">>, 14),
                   Row("x2", "en", 2, <<"fb", "broken">>, 8) >>) }

Window(s, e) == [start |-> s, end |-> e]
NoWindow == Window(0, 0)

\* --startDate/--endDate: both, neither ("auto") or only one ("partial")
DateArgs ==
  { [mode |-> "explicit", w |-> Window(1, 7)],
    [mode |-> "explicit", w |-> Window(1, 1)],
    [mode |-> "auto", w |-> NoWindow],
    [mode |-> "partial", w |-> NoWindow] }

SummaryFileNames == { "summary.json", "other.json" }

\* an entry written by an earlier run of the program
OldEntry(s, e) ==
  [ startDate |-> s, endDate |-> e, PositiveCount |-> 0, NegativeCount |-> 1,
    Categories |-> << [key |-> "Crash", count |-> 1] >>,
    Ratings |-> [r \in 1..5 |-> IF r = 1 THEN 1 ELSE 0] ]

\* the Summary Log files a first run may find
InitialSummaryFiles ==
  { << >>,
    [f \in {"summary.json"} |-> << OldEntry(8, 14), OldEntry(1, 7) >>] }

----------------------------------------------------------------------------
(* State *)

VARIABLES
  summaryFiles,   \* file name -> list of Summary Entries (the files that exist)
  reviewsPkl,     \* window -> validated batch (reviews.pkl files that exist)
  classifyPkl,    \* window -> classified batch (classify.pkl files that exist)
  resultsFile,    \* window -> GroupedReport (results-*.json files that exist)
  pc,             \* position of the running main(), "idle" between runs
  sfile,          \* args.summaryFile
  summary_data,   \* main: summary_data
  window,         \* main: (start_date, end_date)
  reviews,        \* main / classify_reviews: the batch in memory
  index,          \* classify_reviews: position of the loop (1-based)
  text,           \* classify_reviews: text
  attempt,        \* _make_api_call_with_retry: attempt
  gwLog,          \* waits and backend calls of the gateway operation under way
  opResult,       \* the gateway operation that ended last, for this review
  calls,          \* gateway operations invoked by this run, in order
  atStart,        \* what the latest run found when it chose its window
  exit,           \* how the last run ended
  runs,           \* number of runs started
  produced,       \* what completed runs wrote: window, report, entry
  args,           \* the library function applied last, with its arguments
  result          \* what that application returned: a record with one field,
                  \* named after the kind of value

disk == << summaryFiles, reviewsPkl, classifyPkl, resultsFile >>
locals == << pc, sfile, summary_data, window, reviews, index, text, attempt,
             gwLog, opResult, calls >>
vars == << summaryFiles, reviewsPkl, classifyPkl, resultsFile, pc, sfile,
           summary_data, window, reviews, index, text, attempt, gwLog,
           opResult, calls, atStart, exit, runs, produced, args, result >>
lib == << args, result >>

IsFile(files, name) == name \in DOMAIN files

\* write (create or overwrite) a file
WriteFile(files, name, content) ==
  [n \in DOMAIN files \cup {name} |-> IF n = name THEN content ELSE files[n]]

\* exit status of a run, and why
Exit(status, reason) == [status |-> status, reason |-> reason]

\* observed when a run has chosen its window: how the window was given,
\* whether its classify.pkl exists, whether the Summary Log read has an
\* entry with the window's startDate and endDate
Found(how, files, summary, w) ==
  [ mode       |-> how,
    classified |-> w \in DOMAIN files,
    logged     |-> \E k \in DOMAIN summary :
                      << summary[k].startDate, summary[k].endDate >>
                        = << w.start, w.end >> ]

Init ==
  /\ summaryFiles \in InitialSummaryFiles
  /\ reviewsPkl = << >>
  /\ classifyPkl = << >>
  /\ resultsFile = << >>
  /\ pc = "idle"
  /\ sfile = ""
  /\ summary_data = << >>
  /\ window = NoWindow
  /\ reviews = << >>
  /\ index = 0
  /\ text = NoText
  /\ attempt = 0
  /\ gwLog = << >>
  /\ opResult = NoOp
  /\ calls = << >>
  /\ atStart = [mode |-> "", classified |-> FALSE, logged |-> FALSE]
  /\ exit = Exit(0, "none")
  /\ runs = 0
  /\ produced = {}
  /\ args = [fn |-> "none"]
  /\ result = [none |-> TRUE]

\* the process ends: nothing of the run is left but the files
EndRun(status, reason) ==
  /\ pc' = "idle"
  /\ sfile' = ""
  /\ summary_data' = << >>
  /\ window' = NoWindow
  /\ reviews' = << >>
  /\ index' = 0
  /\ text' = NoText
  /\ attempt' = 0
  /\ gwLog' = << >>
  /\ opResult' = NoOp
  /\ calls' = << >>
  /\ exit' = Exit(status, reason)

----------------------------------------------------------------------------
(* src/generate.py: main, up to the choice of the window *)

\* bug: the duplicate-window loop is missing
WindowInSummaryNever(summary, w) == FALSE

\* bug: only the last entry is compared
WindowInSummaryLastOnly(summary, w) ==
  /\ summary # << >>
  /\ summary[Len(summary)].startDate = w.start
  /\ summary[Len(summary)].endDate = w.end

\* the duplicate-window loop of verify_date_range
WindowInSummary(summary, w) ==
  \E k \in 1..Len(summary) :
    summary[k].startDate = w.start /\ summary[k].endDate = w.end

\* verify_date_range: [ok, w, status, reason]
verify_date_range(dates, summary) ==
  IF dates.mode = "partial"
  THEN [ok |-> FALSE, w |-> NoWindow, status |-> 2, reason |-> "one date flag"]
  ELSE IF dates.mode = "auto" /\ summary = << >>
  THEN [ok |-> FALSE, w |-> NoWindow, status |-> 1, reason |-> "empty summary"]
  ELSE LET w == IF dates.mode = "auto" THEN get_next_date_range(summary)
                ELSE dates.w
       IN  IF WindowInSummary(summary, w)
           THEN [ok |-> FALSE, w |-> w, status |-> 2, reason |-> "duplicate"]
           ELSE [ok |-> TRUE, w |-> w, status |-> 0, reason |-> ""]

\* main, lines 162-183: arguments, Summary Log, window
Begin ==
  /\ UNCHANGED lib
  /\ pc = "idle"
  /\ runs < MaxRuns
  /\ \E f \in SummaryFileNames, dates \in DateArgs :
       LET summary == IF IsFile(summaryFiles, f) THEN summaryFiles[f] ELSE << >>
           v       == verify_date_range(dates, summary)
       IN  /\ runs' = runs + 1
           /\ atStart' = Found(dates.mode, classifyPkl, summary, v.w)
           /\ UNCHANGED << disk, produced >>
           /\ IF v.ok
              THEN /\ pc' = "load"
                   /\ sfile' = f
                   /\ summary_data' = summary
                   /\ window' = v.w
                   /\ UNCHANGED << reviews, index, text, attempt, gwLog,
                                   opResult, calls, exit >>
              ELSE /\ exit' = Exit(v.status, v.reason)
                   /\ UNCHANGED locals

----------------------------------------------------------------------------
(* src/generate.py: main, loading and validating the batch *)

\* main, lines 185-203: cached or fresh batch, row validation
LoadReviews ==
  /\ UNCHANGED lib
  /\ pc = "load"
  /\ \E input \in (IF IsFile(reviewsPkl, window)
                   THEN { Batch(TRUE, reviewsPkl[window]) }
                   ELSE Inputs) :
       IF input.rows = << >>
       THEN EndRun(0, "no reviews")
       ELSE IF ~input.columns
       THEN EndRun(1, "missing columns")
       ELSE IF validate_review_data(input.rows) = << >>
       THEN EndRun(0, "no valid reviews")
       ELSE /\ reviews' = validate_review_data(input.rows)
            /\ pc' = "daterange"
            /\ UNCHANGED << sfile, summary_data, window, index, text, attempt,
                            gwLog, opResult, calls, exit >>
  /\ UNCHANGED << disk, atStart, runs, produced >>

\* main, lines 205-216: the date-range assertion, then reviews.pkl
CheckDateRange ==
  /\ UNCHANGED lib
  /\ pc = "daterange"
  /\ IF ~validate_date_range(reviews, window.start, window.end)
     THEN /\ EndRun(1, "date range")
          /\ UNCHANGED reviewsPkl
     ELSE /\ reviewsPkl' = WriteFile(reviewsPkl, window, reviews)
          /\ pc' = "cache"
          /\ UNCHANGED << sfile, summary_data, window, reviews, index, text,
                          attempt, gwLog, opResult, calls, exit >>
  /\ UNCHANGED << summaryFiles, classifyPkl, resultsFile, atStart, runs,
                  produced >>

\* bug: the classified checkpoint is never looked for
HasClassifyCacheNever(files, w) == FALSE

\* os.path.isfile(classify_output_filename)
HasClassifyCache(files, w) == IsFile(files, w)

\* main, lines 219-221: the classified checkpoint is loaded
LoadClassified ==
  /\ UNCHANGED lib
  /\ pc = "cache"
  /\ HasClassifyCache(classifyPkl, window)
  /\ reviews' = classifyPkl[window]
  /\ pc' = "aggregate"
  /\ UNCHANGED << disk, sfile, summary_data, window, index, text, attempt,
                  gwLog, opResult, calls, atStart, exit, runs, produced >>

\* main, lines 222-224 and OpenAIClient.__init__: the client is built
\* (OPENAI_API_KEY set or not) and classify_reviews starts
StartClassify ==
  /\ UNCHANGED lib
  /\ pc = "cache"
  /\ ~HasClassifyCache(classifyPkl, window)
  /\ \E api_key \in BOOLEAN :
       IF ~api_key
       THEN EndRun(1, "no api key")
       ELSE /\ pc' = "loop"
            /\ index' = 1
            /\ UNCHANGED << sfile, summary_data, window, reviews, text,
                            attempt, gwLog, opResult, calls, exit >>
  /\ UNCHANGED << disk, atStart, runs, produced >>

----------------------------------------------------------------------------
(* src/generate.py: classify_reviews *)

\* a gateway operation invoked for row i with txt; status is "pending"
\* until it returns ("ok") or raises ("raised")
Call(op, i, txt) == [op |-> op, index |-> i, text |-> txt, status |-> "pending"]

\* the call under way has ended
Ended(cs, status) == [cs EXCEPT ![Len(cs)].status = status]

\* bug: every review is translated
NeedsTranslationAlways(lang) == TRUE

\* src_lang != 'en'
NeedsTranslation(lang) == lang # "en"

\* bug: after a failed translation there is no text left to classify
TextAfterFailedTranslationLost(row) == NoText

\* the text classified after a failed translation
TextAfterFailedTranslation(row) == row.text

\* the Classification stored for the outcome of classify()
StoredClassification(res) ==
  IF res.status = "ok" THEN res.value ELSE Str1("Other")

\* loop head, lines 56-70 (and 80-82 for English): the next row
NextReview ==
  /\ UNCHANGED lib
  /\ pc = "loop"
  /\ index <= Len(reviews)
  /\ LET row == reviews[index]
     IN  /\ text' = row.text
         /\ IF NeedsTranslation(row.lang)
            THEN /\ pc' = "translate"
                 /\ calls' = Append(calls, Call("translate", index, row.text))
            ELSE /\ pc' = "classify"
                 /\ calls' = Append(calls, Call("classify", index, row.text))
  /\ attempt' = 0
  /\ gwLog' = << >>
  /\ opResult' = NoOp
  /\ UNCHANGED << disk, sfile, summary_data, window, reviews, index, atStart,
                  exit, runs, produced >>

\* one backend call of model.translate; when its retry loop ends, lines
\* 72-78 and the start of model.classify
TranslateAttempt ==
  /\ UNCHANGED lib
  /\ pc = "translate"
  /\ \E out \in TranslateOutcomes :
       LET r == ApiAttempt(attempt, gwLog, out)
       IN  IF r.state = "retry"
           THEN /\ attempt' = r.attempt
                /\ gwLog' = r.log
                /\ UNCHANGED << pc, reviews, text, opResult, calls >>
           ELSE LET res == translate(r)
                    txt == IF res.status = "ok" THEN res.value
                           ELSE TextAfterFailedTranslation(reviews[index])
                IN  /\ opResult' = res
                    /\ reviews' = IF res.status = "ok"
                                  THEN [reviews EXCEPT ![index].translated = res.value]
                                  ELSE reviews
                    /\ text' = txt
                    /\ pc' = "classify"
                    /\ calls' = Append(Ended(calls, res.status),
                                       Call("classify", index, txt))
                    /\ attempt' = 0
                    /\ gwLog' = << >>
  /\ UNCHANGED << disk, sfile, summary_data, window, index, atStart, exit,
                  runs, produced >>

\* one backend call of model.classify; when its retry loop ends, lines 83-92
ClassifyAttempt ==
  /\ UNCHANGED lib
  /\ pc = "classify"
  /\ \E out \in ClassifyOutcomes :
       LET r == ApiAttempt(attempt, gwLog, out)
       IN  IF r.state = "retry"
           THEN /\ attempt' = r.attempt
                /\ gwLog' = r.log
                /\ UNCHANGED << pc, reviews, index, opResult, calls >>
           ELSE LET res == classify(r)
                IN  /\ opResult' = res
                    /\ reviews' = [reviews EXCEPT ![index].classification =
                                     StoredClassification(res)]
                    /\ index' = index + 1
                    /\ pc' = "loop"
                    /\ calls' = Ended(calls, res.status)
                    /\ attempt' = 0
                    /\ gwLog' = << >>
  /\ UNCHANGED << disk, sfile, summary_data, window, text, atStart, exit,
                  runs, produced >>

\* the loop is over (lines 94-95); main, lines 225-226: classify.pkl
SaveClassified ==
  /\ UNCHANGED lib
  /\ pc = "loop"
  /\ index > Len(reviews)
  /\ classifyPkl' = WriteFile(classifyPkl, window, reviews)
  /\ pc' = "aggregate"
  /\ index' = 0
  /\ text' = NoText
  /\ opResult' = NoOp
  /\ UNCHANGED << summaryFiles, reviewsPkl, resultsFile, sfile, summary_data,
                  window, reviews, attempt, gwLog, calls, atStart, exit, runs,
                  produced >>

----------------------------------------------------------------------------
(* src/generate.py: main, report and Summary Log *)

\* bug: the entries read from the Summary Log are dropped
AppendEntryAlone(summary, entry) == << entry >>

\* summary_data.append(entry)
AppendEntry(summary, entry) == Append(summary, entry)

\* main, lines 228-250.  The report file holds the grouped data as is:
\* clean_for_json changes no value the rows can hold.
Aggregate ==
  /\ UNCHANGED lib
  /\ pc = "aggregate"
  /\ LET grouped_data == group_classifications(reviews)
         entry == create_summary_entry(reviews, grouped_data,
                                       window.start, window.end)
     IN  /\ resultsFile' = WriteFile(resultsFile, window, grouped_data)
         /\ summaryFiles' = WriteFile(summaryFiles, sfile,
                                      AppendEntry(summary_data, entry))
         /\ produced' = produced \cup
              { [ window |-> window, report |-> grouped_data, entry |-> entry,
                  rerun |-> atStart.classified, ncalls |-> Len(calls) ] }
  /\ EndRun(0, "done")
  /\ UNCHANGED << reviewsPkl, classifyPkl, atStart, runs >>

Next ==
  \/ Begin
  \/ LoadReviews
  \/ CheckDateRange
  \/ LoadClassified
  \/ StartClassify
  \/ NextReview
  \/ TranslateAttempt
  \/ ClassifyAttempt
  \/ SaveClassified
  \/ Aggregate

Spec == Init /\ [][Next]_vars

----------------------------------------------------------------------------
(* Properties *)

CallIndices(log) == { k \in 1..Len(log) : log[k].ev = "call" }
NumCalls(log) == Cardinality(CallIndices(log))
LastCallOut(log) ==
  log[CHOOSE k \in CallIndices(log) : \A j \in CallIndices(log) : j <= k].out
Tokens(s) == { s[i].tok : i \in 1..Len(s) }
BlankLabel(s) == \A i \in 1..Len(s) : s[i].tok = ""
InClassifyStage == pc \in {"loop", "translate", "classify"}

\* C1: after classify_reviews has finished every review of the batch has a
\* non-blank Classification, whatever the backend answered (error, empty
\* content, a bare <think> block, ordinary content), and a review whose
\* classify call failed has exactly "Other".
C1_ClassificationNeverBlank ==
  /\ pc = "aggregate" =>
       \A i \in 1..Len(reviews) : ~BlankLabel(reviews[i].classification)
  /\ \A k \in 1..Len(calls) :
       (calls[k].op = "classify" /\ calls[k].status = "raised")
         => reviews[calls[k].index].classification = Str1("Other")

\* C2: a run for a window whose classify.pkl already exists never enters
\* classify_reviews and makes no gateway call; the batch it groups and
\* summarizes is the one held by the classified checkpoint.
C2_ClassifiedCheckpointSkipsClassification ==
  /\ (pc # "idle" /\ atStart.classified) =>
       /\ ~InClassifyStage
       /\ calls = << >>
       /\ gwLog = << >>
       /\ pc = "aggregate" => reviews = classifyPkl[window]
  /\ \A p \in produced :
       p.rerun => p.report = group_classifications(classifyPkl[p.window])

C2_Witness == pc = "aggregate" /\ atStart.classified

\* C3 (as claimed): a second run on a window whose checkpoints and whose
\* Summary Log entry a first run left completes (with the same
\* GroupedReport and SummaryEntry, and no gateway call).
C3_SecondRunCompletes ==
  (pc = "idle" /\ atStart.classified /\ atStart.logged) => exit.status = 0

\* C3 (amended): a second run on a window with the first run's checkpoints
\* present makes no gateway call; when the Summary Log it reads has no
\* entry for the window it completes with the same GroupedReport and the
\* same SummaryEntry as the first run; when it reads the Summary Log the
\* first run left, the duplicate-window guard ends it with status 2.
C3_RerunIdenticalOrRejected ==
  /\ \A p, q \in produced :
       p.window = q.window => (p.report = q.report /\ p.entry = q.entry)
  /\ \A p \in produced :
       /\ p.rerun => p.ncalls = 0
       /\ IsFile(resultsFile, p.window) /\ resultsFile[p.window] = p.report
  /\ (atStart.classified /\ atStart.logged) =>
       (pc = "idle" /\ exit = Exit(2, "duplicate"))

C3_Witness ==
  /\ \E p \in produced : p.rerun
  /\ \E p \in produced : ~p.rerun /\ p.ncalls > 0

\* A row that passes validate_review_data.
C4_RowValid(r) ==
  /\ r.rating \in 1..5
  /\ r.text # NoText /\ \E i \in 1..Len(r.text) : r.text[i] # " "
  /\ r.date >= 1

\* C4: in every state, a classify.pkl exists only with a Classification set
\* in every row of the window's validated batch, and a reviews.pkl exists
\* only with rows that pass row validation and the date-range assertion;
\* no classify.pkl of the window exists while its classification is under
\* way.
C4_NoPartialCheckpoint ==
  /\ \A w \in DOMAIN reviewsPkl :
       LET rows == reviewsPkl[w]
       IN  /\ rows # << >>
           /\ \A i \in 1..Len(rows) : C4_RowValid(rows[i])
           /\ rows[1].date = w.end /\ rows[Len(rows)].date = w.start
  /\ \A w \in DOMAIN classifyPkl :
       /\ w \in DOMAIN reviewsPkl
       /\ Len(classifyPkl[w]) = Len(reviewsPkl[w])
       /\ \A i \in 1..Len(classifyPkl[w]) :
            /\ classifyPkl[w][i].link = reviewsPkl[w][i].link
            /\ classifyPkl[w][i].classification # NoLabel
  /\ InClassifyStage => window \notin DOMAIN classifyPkl

C4_Witness ==
  /\ pc = "idle" /\ exit.status = 1
  /\ DOMAIN classifyPkl # {}
  /\ DOMAIN reviewsPkl # DOMAIN classifyPkl

\* A gateway log within the retry bound, with nothing after a call that returned.
C5_LogOk(log) ==
  /\ NumCalls(log) <= MAX_RETRIES
  /\ \A k \in CallIndices(log) :
       log[k].out.kind # "error" => \A j \in CallIndices(log) : j <= k

\* C5: a gateway operation makes at most MAX_RETRIES backend calls and none
\* after a call that returned; when all MAX_RETRIES calls failed it raises
\* the error of the last one; what it returns is the content of its last
\* call (less the <think> block).
C5_GatewayRetryContract ==
  /\ C5_LogOk(gwLog)
  /\ C5_LogOk(opResult.log)
  /\ opResult.op # "none" => NumCalls(opResult.log) >= 1
  /\ opResult.status = "ok" =>
       LET out == LastCallOut(opResult.log)
       IN  /\ out.kind = "content"
           /\ IF opResult.op = "translate"
              THEN opResult.value = out.body
              ELSE SplitStrip(opResult.value) = SplitStrip(out.body)
  /\ (opResult.op # "none" /\ LastCallOut(opResult.log).kind = "error") =>
       /\ opResult.status = "raised"
       /\ NumCalls(opResult.log) = MAX_RETRIES
       /\ opResult.err = LastCallOut(opResult.log).err

C5_Witness ==
  /\ opResult.status = "raised"
  /\ opResult.err = "ratelimit"
  /\ NumCalls(opResult.log) = MAX_RETRIES

\* C6 (as claimed): an operation fails for empty content only after its
\* retries are exhausted.
C6_EmptyContentIsRetried ==
  (opResult.status = "raised" /\ opResult.err = "empty")
    => NumCalls(opResult.log) = MAX_RETRIES

\* A response whose content is empty.
C6_EmptyOut(out) ==
  out.kind = "content" /\ ~out.think /\ out.body \in { << >>, EmptyStr }

\* C6 (amended): a call that returns empty content ends the retry loop: no
\* wait and no call follows it, and translate and classify fail at once
\* with the empty-content error, on any attempt; only a call that raises
\* is followed by another attempt.
C6_EmptyContentFailsAtOnce ==
  /\ \A k \in CallIndices(gwLog) : gwLog[k].out.kind = "error"
  /\ opResult.op # "none" =>
       LET log == opResult.log
       IN  /\ log[Len(log)].ev = "call"
           /\ C6_EmptyOut(log[Len(log)].out)
                <=> (opResult.status = "raised" /\ opResult.err = "empty")

C6_Witness ==
  /\ opResult.status = "raised" /\ opResult.err = "empty"
  /\ NumCalls(opResult.log) < MAX_RETRIES

\* The classify invocations of the run, in order.
C7_ClassifyCalls == SelectSeq(calls, LAMBDA c : c.op = "classify")

\* C7: when translate fails for a review that is not in English, classify
\* is invoked next for that review with the original text and its
\* Translated_Text stays null; no failure stops the loop: the classify
\* invocations are those of rows 1, 2, ... in order, one per row.
C7_TranslationFailureFallsThrough ==
  /\ \A k \in 1..Len(C7_ClassifyCalls) : C7_ClassifyCalls[k].index = k
  /\ pc = "loop" => Len(C7_ClassifyCalls) = index - 1
  /\ pc \in {"translate", "classify"} => calls[Len(calls)].index = index
  /\ (pc = "aggregate" /\ calls # << >>) =>
       Len(C7_ClassifyCalls) = Len(reviews)
  /\ \A k \in 1..Len(calls) :
       (calls[k].op = "translate" /\ calls[k].status = "raised") =>
         /\ reviews[calls[k].index].translated = NoText
         /\ k < Len(calls)
         /\ calls[k + 1].op = "classify"
         /\ calls[k + 1].index = calls[k].index
         /\ calls[k + 1].text = reviews[calls[k].index].text

C7_Witness ==
  /\ pc = "aggregate"
  /\ \E k \in 1..Len(calls) :
       calls[k].op = "translate" /\ calls[k].status = "raised"
  /\ \E k \in 1..Len(calls) :
       calls[k].op = "classify" /\ calls[k].status = "raised" /\ k < Len(calls)

\* C8: translate is never invoked for a review whose Reviewer_Language is
\* "en", and its Translated_Text is null during and after the stage,
\* whatever the calls for the other reviews did.
C8_EnglishNeverTranslated ==
  /\ \A k \in 1..Len(calls) :
       calls[k].op = "translate" => reviews[calls[k].index].lang # "en"
  /\ \A i \in 1..Len(reviews) :
       reviews[i].lang = "en" => reviews[i].translated = NoText
  /\ \A w \in DOMAIN classifyPkl : \A i \in 1..Len(classifyPkl[w]) :
       classifyPkl[w][i].lang = "en" => classifyPkl[w][i].translated = NoText

C8_Witness ==
  /\ pc = "aggregate"
  /\ \E i \in 1..Len(reviews) : reviews[i].lang = "en"
  /\ \E i \in 1..Len(reviews) : reviews[i].translated # NoText
  /\ \E k \in 1..Len(calls) : calls[k].status = "raised"

\* C9: whenever classify succeeds for a review, the Classification stored
\* holds every canonical entity name detect_websites_in_text finds in the
\* review's raw text.
C9_EntitiesReconciled ==
  \A k \in 1..Len(calls) :
    (calls[k].op = "classify" /\ calls[k].status = "ok") =>
      detect_websites_in_text(reviews[calls[k].index].text)
        \subseteq Tokens(reviews[calls[k].index].classification)

\* C10: a run whose window, given or derived, has the startDate and endDate
\* of an entry of the Summary Log it read ends with a fatal status in the
\* step that chose the window: no checkpoint, report or Summary Log file is
\* created or changed.
C10_DuplicateWindowRejected ==
  [][ (pc = "idle" /\ runs' = runs + 1 /\ atStart'.logged) =>
        (pc' = "idle" /\ exit' = Exit(2, "duplicate") /\ UNCHANGED disk) ]_vars

C10_Witness ==
  /\ pc = "idle" /\ atStart.logged /\ atStart.mode = "auto"
  /\ exit.status = 2
  /\ DOMAIN reviewsPkl # {}

\* the entry get_next_date_range reads: the last one of the log loaded
LastEntry == summary_data[Len(summary_data)]

\* C11 (as claimed): the window derived when no dates are given is
\* [lastEnd + 1, lastEnd + 7], lastEnd being the endDate of the last entry
\* of the Summary Log, whatever the length of that entry's window.
C11_NextWindowFromLastEnd ==
  (pc # "idle" /\ atStart.mode = "auto") =>
    window = Window(LastEntry.endDate + 1, LastEntry.endDate + 7)

\* C11 (amended): the window derived when no dates are given is
\* [lastStart + 7, lastStart + 13], lastStart being the startDate of the
\* last entry of the Summary Log; it is [lastEnd + 1, lastEnd + 7] when
\* that entry's window is 7 days long.
C11_NextWindowFromLastStart ==
  (pc # "idle" /\ atStart.mode = "auto") =>
    /\ summary_data # << >>
    /\ window = Window(LastEntry.startDate + 7, LastEntry.startDate + 13)
    /\ LastEntry.endDate = LastEntry.startDate + 6 =>
         window = Window(LastEntry.endDate + 1, LastEntry.endDate + 7)

C11_Witness ==
  /\ pc = "aggregate" /\ atStart.mode = "auto"
  /\ LastEntry.endDate # LastEntry.startDate + 6

\* C12: every step leaves every Summary Log file as it is, except the end
\* of a run that completed: that step rewrites the run's own file as the
\* log the run loaded followed by one new entry, the one of its window.
\* Every other end of a run (fatal or early) changes no Summary Log.
C12_SummaryLogAppendOnly ==
  [][ \/ UNCHANGED summaryFiles
      \/ /\ pc = "aggregate" /\ pc' = "idle" /\ exit' = Exit(0, "done")
         /\ DOMAIN summaryFiles' = DOMAIN summaryFiles \cup {sfile}
         /\ \A f \in DOMAIN summaryFiles \ {sfile} :
              summaryFiles'[f] = summaryFiles[f]
         /\ LET old == IF sfile \in DOMAIN summaryFiles
                       THEN summaryFiles[sfile] ELSE << >>
                new == summaryFiles'[sfile]
            IN  /\ old = summary_data
                /\ Len(new) = Len(old) + 1
                /\ \A k \in 1..Len(old) : new[k] = old[k]
                /\ new[Len(new)].startDate = window.start
                /\ new[Len(new)].endDate = window.end ]_vars

C12_Witness ==
  \E f \in DOMAIN summaryFiles :
    /\ Len(summaryFiles[f]) = 3
    /\ summaryFiles[f][1] = OldEntry(8, 14)
    /\ summaryFiles[f][2] = OldEntry(1, 7)
    /\ \E p \in produced : summaryFiles[f][3] = p.entry

----------------------------------------------------------------------------
(* The library functions applied on their own to bounded arguments *)

\* the state of the program, which no application of a function touches
prog == << disk, locals, atStart, exit, runs, produced >>

\* no function has been applied yet: a behaviour of the library is one call
Unapplied == args.fn = "none"

\* all lists of at most n elements of S
SeqsUpTo(S, n) == UNION { [1..k -> S] : k \in 0..n }

MaxRows == 3

\* rows of every kind validate_review_data tells apart
DirtyRows ==
  { Row("g", "en", 5, <<"great", "app">>, 3),
    Row("h", "fr", 1, <<"YT", "plante">>, 2),
    Row("r6", "en", 6, <<"ok">>, 3),
    Row("r0", "en", 0, <<"zero">>, 3),
    Row("bl", "en", 4, <<" ">>, 3),
    Row("em", "en", 4, << >>, 3),
    Row("na", "en", 3, NoText, 3),
    Row("nt", "en", 3, <<"bad", "fb">>, NaT) }

Apply_validate_review_data ==
  /\ Unapplied
  /\ \E rows \in SeqsUpTo(DirtyRows, MaxRows) :
       LET reviews_in == Frame(TRUE, rows).rows
       IN  /\ args' = [fn |-> "validate_review_data", reviews |-> reviews_in]
           /\ result' = [rows |-> validate_review_data(reviews_in)]
  /\ UNCHANGED prog

MaxDated == 3

\* the windows and the dates of the rows validate_date_range is applied to
LibWindows == { Window(1, 7), Window(4, 7) }
LibDates == { 1, 4, 7, 9 }

\* a clean row submitted on day d
DatedRow(d) == Row("v", "en", 4, <<"fine">>, d)

\* validate_date_range on a validated batch (never empty: main has left
\* before), its rows in any order
Apply_validate_date_range ==
  /\ Unapplied
  /\ \E ds \in SeqsUpTo(LibDates, MaxDated) \ { << >> }, w \in LibWindows :
       LET reviews_in == Frame(TRUE, [i \in 1..Len(ds) |-> DatedRow(ds[i])]).rows
       IN  /\ args' = [fn |-> "validate_date_range", reviews |-> reviews_in,
                       start_date |-> w.start, end_date |-> w.end]
           /\ result' = [ok |-> validate_date_range(reviews_in, w.start, w.end)]
  /\ UNCHANGED prog

MaxClassified == 2

\* Classification values of every kind the aggregation tells apart
LibLabels ==
  { Str1("Satisfied"),
    Str1("SATISFIED"),
    << Piece(TRUE, "Satisfied") >>,
    Str1("Other"),
    Str1("Crash"),
    JoinCommaSpace(<< "Crash", "Crash" >>),
    JoinCommaSpace(<< "Slow", "YouTube", "Crash" >>),
    JoinCommaSpace(<< "Slow", "bogus token", "Crash" >>),
    JoinCommaSpace(<< "slow", "X" >>),
    JoinCommaSpace(<< "Averyveryverylongsitename", "Site!" >>),
    EmptyStr }

LibRatings == { 3, 4, 5 }

LibLinks == << "r1", "r2", "r3" >>

\* a classified batch: the i-th row has the i-th link
ClassifiedBatches ==
  { Frame(TRUE, [i \in 1..Len(ks) |->
       [ Row(LibLinks[i], "en", ks[i][1], <<"fine">>, 1)
           EXCEPT !.classification = ks[i][2] ]]).rows :
    ks \in SeqsUpTo(LibRatings \X LibLabels, MaxClassified) }

Apply_group_classifications ==
  /\ Unapplied
  /\ \E rows \in ClassifiedBatches :
       /\ args' = [fn |-> "group_classifications", reviews |-> rows]
       /\ result' = [grouped |-> group_classifications(rows)]
  /\ UNCHANGED prog

\* create_summary_entry as main calls it: on the batch and its grouping
Apply_create_summary_entry ==
  /\ Unapplied
  /\ \E rows \in ClassifiedBatches :
       /\ args' = [fn |-> "create_summary_entry", reviews |-> rows,
                   grouped_data |-> group_classifications(rows)]
       /\ result' = [entry |-> create_summary_entry(
                                 rows, group_classifications(rows), 1, 7)]
  /\ UNCHANGED prog

\* classifications and review texts for the reconciliation
LibClassifications ==
  { Str1("Slow"),
    Str1("YouTube"),
    Str1("youtube"),
    JoinCommaSpace(<< "Slow", "Crash" >>),
    JoinCommaSpace(<< "Crash", "Crash" >>),
    JoinCommaSpace(<< "Facebook", "Slow", "YouTube" >>),
    EmptyStr }

LibTexts ==
  { <<"youtube", "keeps", "buffering">>,
    <<"fb", "and", "YT", "broken">>,
    <<"YouTube", "x.com", "insta">>,
    <<"fine">>,
    << >>,
    NoText }

Apply_enhance_classification_with_websites ==
  /\ Unapplied
  /\ \E c \in LibClassifications, t \in LibTexts :
       \E out \in enhance_classification_with_websites(c, t) :
         /\ args' = [fn |-> "enhance_classification_with_websites",
                     classification |-> c, review_text |-> t]
         /\ result' = [classification |-> out]
  /\ UNCHANGED prog

InitLib == Init /\ summaryFiles = << >>

NextLib ==
  \/ Apply_validate_review_data
  \/ Apply_validate_date_range
  \/ Apply_group_classifications
  \/ Apply_create_summary_entry
  \/ Apply_enhance_classification_with_websites

SpecLib == InitLib /\ [][NextLib]_vars

\* a row that validate_review_data must keep
C13_Survives(r) ==
  /\ r.rating \in 1..5
  /\ r.text # NoText
  /\ \E i \in 1..Len(r.text) : r.text[i] # " "
  /\ r.date # NaT

\* C13: validate_review_data returns the input rows whose rating is in
\* 1..5, whose text is not null and not blank and whose date parsed, each
\* as it was, in their input order and no other row; the j-th of them has
\* the index label j - 1.
C13_ValidatorKeepsExactlyValidRows ==
  args.fn = "validate_review_data" =>
    LET rows == args.reviews
        Kept == { i \in 1..Len(rows) : C13_Survives(rows[i]) }
        nth(j) == CHOOSE i \in Kept : Cardinality({ k \in Kept : k < i }) = j - 1
    IN  /\ Len(result.rows) = Cardinality(Kept)
        /\ \A j \in 1..Len(result.rows) :
             /\ result.rows[j].idx = j - 1
             /\ [result.rows[j] EXCEPT !.idx = rows[nth(j)].idx] = rows[nth(j)]

C13_Witness ==
  /\ args.fn = "validate_review_data"
  /\ Len(args.reviews) = 3 /\ Len(result.rows) = 1
  /\ args.reviews[1].rating = 6
  /\ args.reviews[2].text = << >>
  /\ result.rows[1].link = args.reviews[3].link
  /\ result.rows[1].idx = 0

\* C14: a batch that validate_date_range accepts has every submission
\* date within [start_date, end_date], whatever the order of its rows.
C14_AcceptedBatchWithinWindow ==
  (args.fn = "validate_date_range" /\ result.ok) =>
    \A i \in 1..Len(args.reviews) :
      /\ args.reviews[i].date >= args.start_date
      /\ args.reviews[i].date <= args.end_date

\* the entity-token structural test: starts uppercase, no whitespace,
\* length 2 to 20, alphanumeric plus '.' and '-'
C15_EntityTest(t) ==
  /\ FirstIsUpper(t)
  /\ ~HasSpace(t)
  /\ TokLen(t) >= 2 /\ TokLen(t) <= 20
  /\ IsAlnumSansDotDash(t)

\* the buckets of a GroupedReport that hold the projection of row r
C15_BucketsOf(grouped, r) ==
  { grouped[k].key : k \in { j \in 1..Len(grouped) :
      \E n \in 1..Len(grouped[j].items) :
        grouped[j].items[n] = Projection(r) } }

\* C15: group_classifications puts the projection of a review into the
\* bucket of t exactly when t is a trimmed token of its Classification
\* that is in the closed vocabulary or passes the entity-token test; the
\* report has one bucket per key, every key is such a token, and every
\* bucket entry is the projection of a row.
C15_GroupedByValidTokens ==
  args.fn = "group_classifications" =>
    LET rows == args.reviews
        grouped == result.grouped
    IN  /\ \A i \in 1..Len(rows) :
             C15_BucketsOf(grouped, rows[i]) =
               { t \in Tokens(rows[i].classification) :
                   t \in CATEGORIES \/ C15_EntityTest(t) }
        /\ \A j, k \in 1..Len(grouped) :
             grouped[j].key = grouped[k].key => j = k
        /\ \A k \in 1..Len(grouped) :
             /\ grouped[k].key \in CATEGORIES \/ C15_EntityTest(grouped[k].key)
             /\ \A n \in 1..Len(grouped[k].items) :
                  \E i \in 1..Len(rows) : grouped[k].items[n] = Projection(rows[i])

C15_Witness ==
  /\ args.fn = "group_classifications"
  /\ \E i \in 1..Len(args.reviews) :
       /\ Tokens(args.reviews[i].classification) = {"Slow", "bogus token", "Crash"}
       /\ C15_BucketsOf(result.grouped, args.reviews[i]) = {"Slow", "Crash"}
  /\ \E i \in 1..Len(args.reviews) :
       /\ "X" \in Tokens(args.reviews[i].classification)
       /\ C15_BucketsOf(result.grouped, args.reviews[i]) = {}

\* the whole label is the word w, compared case-insensitively
C16_LabelIs(label, w) ==
  Len(label) = 1 /\ ~label[1].sp /\ LowerTok(label[1].tok) = w

\* the rows the fixed precedence counts as positive, and as negative
C16_Positive(rows) ==
  { i \in 1..Len(rows) : C16_LabelIs(rows[i].classification, "satisfied") }
C16_Negative(rows) ==
  { i \in 1..Len(rows) :
      /\ ~C16_LabelIs(rows[i].classification, "satisfied")
      /\ \/ rows[i].rating <= 3
         \/ ~C16_LabelIs(rows[i].classification, "other") }

\* C16: create_summary_entry counts as positive the reviews whose whole
\* label is "Satisfied" in any case, as negative those of the others that
\* are rated 3 or less or whose label is not "Other" in any case, and no
\* review in both; its histogram counts every review once under its
\* rating, however many buckets the review is in; so PositiveCount +
\* NegativeCount <= number of reviews = sum of the histogram.
C16_SummaryCountsByPrecedence ==
  args.fn = "create_summary_entry" =>
    LET rows == args.reviews
        entry == result.entry
    IN  /\ entry.PositiveCount = Cardinality(C16_Positive(rows))
        /\ entry.NegativeCount = Cardinality(C16_Negative(rows))
        /\ C16_Positive(rows) \cap C16_Negative(rows) = {}
        /\ entry.PositiveCount + entry.NegativeCount <= Len(rows)
        /\ \A r \in 1..5 :
             entry.Ratings[r] = Cardinality({ i \in 1..Len(rows) : rows[i].rating = r })
        /\ entry.Ratings[1] + entry.Ratings[2] + entry.Ratings[3]
             + entry.Ratings[4] + entry.Ratings[5] = Len(rows)

C16_Witness ==
  /\ args.fn = "create_summary_entry"
  /\ Len(args.reviews) = 2
  /\ args.reviews[1].rating = 3
  /\ args.reviews[1].classification = Str1("SATISFIED")
  /\ args.reviews[2].rating = 5
  /\ Tokens(args.reviews[2].classification) = {"Slow", "YouTube", "Crash"}
  /\ Len(args.grouped_data) = 4
  /\ result.entry.PositiveCount = 1 /\ result.entry.NegativeCount = 1

\* C19: no bucket of the GroupedReport holds a review twice, and the count
\* of a category in the Summary Entry is the number of reviews that carry
\* its token, also when a Classification repeats a token.
C19_ReviewOncePerBucket ==
  /\ args.fn = "group_classifications" =>
       \A k \in 1..Len(result.grouped) :
         \A a, b \in 1..Len(result.grouped[k].items) :
           result.grouped[k].items[a].link = result.grouped[k].items[b].link
             => a = b
  /\ args.fn = "create_summary_entry" =>
       \A k \in 1..Len(result.entry.Categories) :
         result.entry.Categories[k].count =
           Cardinality({ i \in 1..Len(args.reviews) :
             result.entry.Categories[k].key
               \in Tokens(args.reviews[i].classification) })

\* the waits and calls of a retry loop, in their order: a rate-limit wait,
\* a call and, after a call that failed, a backoff wait of RETRY_DELAY
\* times the number of the attempt (counted from 1), that attempt not
\* being the last
C17_LogPattern(log) ==
  \A k \in 1..Len(log) :
    /\ k % 3 = 1 => (log[k].ev = "wait" /\ log[k].d = RATE_LIMIT_DELAY)
    /\ k % 3 = 2 => log[k].ev = "call"
    /\ k % 3 = 0 =>
         /\ log[k].ev = "wait" /\ log[k].d = RETRY_DELAY * (k \div 3)
         /\ log[k - 1].out.kind = "error"
         /\ (k \div 3) < MAX_RETRIES
         /\ k < Len(log) \/ log = gwLog

\* C17: in the gateway retry loop every backend call comes right after one
\* wait of RATE_LIMIT_DELAY; the k-th failed attempt, k < MAX_RETRIES, is
\* followed by one backoff wait of RETRY_DELAY * k before the next
\* attempt; an operation that has ended has no wait after its last call.
C17_WaitsOfTheRetryLoop ==
  /\ C17_LogPattern(gwLog)
  /\ C17_LogPattern(opResult.log)
  /\ Len(gwLog) % 3 = 0
  /\ opResult.op # "none" =>
       /\ Len(opResult.log) % 3 = 2
       /\ opResult.log[Len(opResult.log)].ev = "call"

C17_Witness ==
  /\ opResult.status = "raised"
  /\ Len(opResult.log) = 3 * MAX_RETRIES - 1
  /\ opResult.log[3].d = RETRY_DELAY
  /\ opResult.log[6].d = 2 * RETRY_DELAY
  /\ opResult.log[7].d = RATE_LIMIT_DELAY
  /\ opResult.log[8].out.kind = "error"

\* C18: for a non-empty classification and text with detected entities
\* that are not among the classification's trimmed tokens, what
\* enhance_classification_with_websites returns has exactly the existing
\* tokens and the detected entities as its tokens, each once, every
\* existing token before every added entity.
C18_EnhanceAppendsMissingEntities ==
  (/\ args.fn = "enhance_classification_with_websites"
   /\ args.classification # EmptyStr
   /\ args.review_text # NoText /\ args.review_text # << >>
   /\ detect_websites_in_text(args.review_text)
        \ Tokens(args.classification) # {})
  => LET out      == SplitStrip(result.classification)
         existing == Tokens(args.classification)
         detected == detect_websites_in_text(args.review_text)
     IN  /\ { out[i] : i \in 1..Len(out) } = existing \cup detected
         /\ \A i, j \in 1..Len(out) : out[i] = out[j] => i = j
         /\ \A i, j \in 1..Len(out) :
              (out[i] \in existing /\ out[j] \notin existing) => i < j

C18_Witness ==
  /\ args.fn = "enhance_classification_with_websites"
  /\ args.classification = Str1("Slow")
  /\ args.review_text = <<"youtube", "keeps", "buffering">>
  /\ result.classification = JoinCommaSpace(<< "Slow", "YouTube" >>)

\* C20: a run that ends with status 0 leaves, as the last entry of its
\* Summary Log, an entry for its window (so that the next run without
\* dates derives a later window).
C20_SuccessAppendsEntry ==
  [][ (pc # "idle" /\ pc' = "idle" /\ exit'.status = 0) =>
        /\ IsFile(summaryFiles', sfile)
        /\ LET log == summaryFiles'[sfile]
           IN  /\ log # << >>
               /\ log[Len(log)].startDate = window.start
               /\ log[Len(log)].endDate = window.end ]_vars

====
